---- MODULE Spec2Model ----
(***************************************************************************)
(* The file-upload client of notionapi (file_upload.go): Create, Send and  *)
(* SendFileByPath of FileUploadClient, the multipart framing Send builds   *)
(* with mime/multipart, and the transport (apiClient.request) as a black   *)
(* box that answers every request with an error or with any response.      *)
(***************************************************************************)
EXTENDS Integers, Sequences, FiniteSets, TLC

\* ---------------------------------------------------------------- bounds
MaxLen == 2
NumCalls == 2

\* ------------------------------------------------------- program constants
StatusOK == 200
MinParts == 1
MaxParts == 1000

\* ------------------------------------------------------------ input sets
Bytes == {"x", "y"}
Boundaries == {"b1", "b2"}
UploadIds == {"u1", "u2"}
FileNames == { <<"a">>, <<"\\", "\"">> }
PartNumbers == {12, -4}
StatusCodes == {200, 201, 500}
FilePaths == { << <<"a">> >>, << <<"d">>, <<"\\", "\"">> >> }
WriterFailures == {"none", "CreateFormFile", "WriteField", "Close"}

None == << >>
Some(x) == <<x>>

Contents == UNION { [1..n -> Bytes] : n \in 0..MaxLen }

\* An io.Reader: the bytes it holds and, when failAt >= 0, the number of
\* bytes it delivers before Read returns an error other than io.EOF.
Readers == { r \in [data : Contents, failAt : -1..MaxLen] :
               r.failAt <= Len(r.data) }

\* ------------------------------------------------------------ data types
FileUploadModeSinglePart == "single_part"
FileUploadModeMultiPart == "multi_part"
FileUploadModeExternalURL == "external_url"
FileUploadModes ==
  {FileUploadModeSinglePart, FileUploadModeMultiPart, FileUploadModeExternalURL}

FileUploadStatusPending == "pending"
FileUploadStatusUploaded == "uploaded"
FileUploadStatusExpired == "expired"
FileUploadStatusFailed == "failed"
FileUploadStatuses ==
  {FileUploadStatusPending, FileUploadStatusUploaded,
   FileUploadStatusExpired, FileUploadStatusFailed}

\* FileUploadCreateRequest; "" is the zero Mode (omitted on the wire).
FileUploadCreateRequest ==
  [Mode : FileUploadModes \cup {""},
   Filename : {<< >>, <<"a">>},
   NumberOfParts : {None} \cup { Some(n) : n \in {0, 1, 1000, 1001} },
   ExternalURL : {"", "https://e/f"}]

ZeroRequest ==
  [Mode |-> "", Filename |-> << >>, NumberOfParts |-> None, ExternalURL |-> ""]

ContentTypeJSON == [mediaType |-> "", boundary |-> ""]

\* The content-type override Send passes: a package-level constant, the same
\* for every call, so it names no boundary of any one writer.
ContentTypeFormData == [mediaType |-> "multipart/form-data", boundary |-> ""]

\* ------------------------------------------------------- mime/multipart
Tok(k, v) == [k |-> k, v |-> v]

Toks(k, s) == [i \in 1..Len(s) |-> Tok(k, s[i])]

\* escapeQuotes: backslash and double quote each get a backslash before them.
RECURSIVE EscapeQuotes(_)
EscapeQuotes(s) ==
  IF s = << >> THEN << >>
  ELSE (IF Head(s) \in {"\\", "\""} THEN <<"\\", Head(s)>> ELSE <<Head(s)>>)
       \o EscapeQuotes(Tail(s))

NewWriter(b) == [boundary |-> b, buf |-> << >>]

\* Writer.CreatePart: the delimiter line, the part's header, a blank line.
CreatePart(w, header) ==
  [w EXCEPT !.buf = @ \o <<Tok("delim", w.boundary)>> \o header
                      \o <<Tok("blank", "")>>]

CreateFormFile(w, fieldname, filename) ==
  CreatePart(w, <<Tok("name", fieldname), Tok("filename", "")>>
                \o Toks("fnchar", EscapeQuotes(filename))
                \o <<Tok("ctype", "application/octet-stream")>>)

WriteBytes(w, bs) == [w EXCEPT !.buf = @ \o Toks("byte", bs)]

WriteField(w, fieldname, value) ==
  WriteBytes(CreatePart(w, <<Tok("name", fieldname)>>), value)

CloseWriter(w) == [w EXCEPT !.buf = @ \o <<Tok("final", w.boundary)>>]

\* io.Copy: every byte the reader delivers before EOF or its error.
Copied(file) ==
  IF file.failAt = -1 THEN file.data ELSE SubSeq(file.data, 1, file.failAt)

\* strconv.Itoa
DigitChar(d) == <<"0", "1", "2", "3", "4", "5", "6", "7", "8", "9">>[d + 1]

RECURSIVE Digits(_)
Digits(n) ==
  IF n < 10 THEN <<DigitChar(n)>>
  ELSE Digits(n \div 10) \o <<DigitChar(n % 10)>>

Itoa(n) == IF n < 0 THEN <<"-">> \o Digits(-n) ELSE Digits(n)

\* ----------------------------------------------------------------- state
Callers == 1..NumCalls

\* The one call site of the sequential specification.
SeqCallers == {1}

VARIABLES
  call,     \* per call site: the invocation in progress, its locals and result
  status    \* per upload identifier: the status the remote service holds

vars == <<call, status>>

NoReader == [data |-> << >>, failAt |-> -1]

NoRequest ==
  [method |-> "", path |-> << >>, json |-> ZeroRequest, body |-> << >>,
   contentType |-> ContentTypeJSON]

EmptyBody == [valid |-> FALSE, id |-> "", status |-> ""]

NoResponse == [err |-> FALSE, code |-> 0, body |-> EmptyBody]

NoResult == [err |-> "nil", record |-> None]

\* What the transport can hand back: an error, or a response with any status
\* code and any body (undecodable, or a JSON object with any id and status,
\* "" when the member is absent).
ResponseBodies ==
  {EmptyBody} \cup
  [valid : {TRUE}, id : UploadIds, status : FileUploadStatuses \cup {""}]

TransportError == [err |-> TRUE, code |-> 0, body |-> EmptyBody]

Responses ==
  {TransportError} \cup [err : {FALSE}, code : StatusCodes, body : ResponseBodies]

\* Send never reads the response body: one body stands for all of them.
SendResponses == { r \in Responses : r.body = EmptyBody }

IdleCall ==
  [pc |-> "idle", op |-> "none", id |-> "", file |-> NoReader,
   fileName |-> << >>, partNumber |-> None, req |-> ZeroRequest,
   path |-> << >>, boundary |-> "", wfail |-> "none", ioErr |-> "none",
   opened |-> 0, closed |-> 0, closeFailed |-> FALSE, exchanges |-> 0,
   request |-> NoRequest, response |-> NoResponse, result |-> NoResult,
   statusAtCall |-> ""]

Init ==
  /\ call = [c \in Callers |-> IdleCall]
  /\ status = [i \in UploadIds |-> "none"]

\* ---------------------------------------------------------------- Create
\* Mutant of CreateCall: the request is validated before anything is sent.
CreateCallValidated(c, requestBody) ==
  LET invalid ==
        \/ /\ requestBody.Mode = FileUploadModeMultiPart
           /\ \/ requestBody.NumberOfParts = None
              \/ requestBody.NumberOfParts[1] < 1
              \/ requestBody.NumberOfParts[1] > 1000
              \/ requestBody.Filename = << >>
        \/ /\ requestBody.Mode = FileUploadModeExternalURL
           /\ requestBody.ExternalURL = ""
  IN  /\ call[c].pc = "idle"
      /\ call' = [call EXCEPT ![c] =
           IF invalid
           THEN [IdleCall EXCEPT
                   !.pc = "done", !.op = "Create", !.req = requestBody,
                   !.result = [err |-> "validation", record |-> None]]
           ELSE [IdleCall EXCEPT
                   !.pc = "waiting", !.op = "Create", !.req = requestBody,
                   !.exchanges = 1,
                   !.request = [method |-> "POST", path |-> <<"file_uploads">>,
                                json |-> requestBody, body |-> << >>,
                                contentType |-> ContentTypeJSON]]]
      /\ UNCHANGED status

CreateCall(c, requestBody) ==
  /\ call[c].pc = "idle"
  /\ call' = [call EXCEPT ![c] =
       [IdleCall EXCEPT
          !.pc = "waiting", !.op = "Create", !.req = requestBody,
          !.exchanges = 1,
          !.request = [method |-> "POST", path |-> <<"file_uploads">>,
                       json |-> requestBody, body |-> << >>,
                       contentType |-> ContentTypeJSON]]]
  /\ UNCHANGED status

\* Mutant of handleFileUploadResponse: the record is given the status the
\* documentation promises instead of the one decoded.
handleFileUploadResponsePending(res) ==
  IF ~res.body.valid
  THEN [err |-> "decode", record |-> None]
  ELSE [err |-> "nil",
        record |-> Some([ID |-> res.body.id, Status |-> FileUploadStatusPending])]

handleFileUploadResponse(res) ==
  IF ~res.body.valid
  THEN [err |-> "decode", record |-> None]
  ELSE [err |-> "nil",
        record |-> Some([ID |-> res.body.id, Status |-> res.body.status])]

CreateResult(res) ==
  IF res.err THEN [err |-> "transport", record |-> None]
  ELSE IF res.code # StatusOK
       THEN [err |-> "unexpected status", record |-> None]
       ELSE handleFileUploadResponse(res)

\* Mutant of CreateReturn: a failed exchange is tried again.
CreateReturnRetries(c, res) ==
  /\ call[c].pc = "waiting"
  /\ call[c].op = "Create"
  /\ call' = [call EXCEPT ![c] =
       IF res.err \/ res.code # StatusOK
       THEN [@ EXCEPT !.exchanges = @ + 1, !.response = res]
       ELSE [@ EXCEPT !.pc = "done", !.response = res,
                      !.result = handleFileUploadResponse(res)]]
  /\ UNCHANGED status

CreateReturn(c, res) ==
  /\ call[c].pc = "waiting"
  /\ call[c].op = "Create"
  /\ call' = [call EXCEPT ![c].pc = "done", ![c].response = res,
                          ![c].result = CreateResult(res)]
  /\ UNCHANGED status

\* ------------------------------------------------------------------ Send
\* Mutant of SendFrame: the part number is passed by value, so an absent one
\* is written as 0.
SendFrameZeroPartNumber(file, fileName, partNumber, b, wfail) ==
  LET w0 == NewWriter(b)
      w1 == WriteBytes(CreateFormFile(w0, "file", fileName), Copied(file))
      w2 == WriteField(w1, "part_number",
                       Itoa(IF partNumber # None THEN partNumber[1] ELSE 0))
  IN  IF wfail = "CreateFormFile"
      THEN [err |-> "create form file", body |-> << >>]
      ELSE IF file.failAt # -1
      THEN [err |-> "copy", body |-> << >>]
      ELSE IF wfail = "WriteField"
      THEN [err |-> "write field", body |-> << >>]
      ELSE IF wfail = "Close"
      THEN [err |-> "close writer", body |-> << >>]
      ELSE [err |-> "nil", body |-> CloseWriter(w2).buf]

\* Mutant of SendFrame: the error of io.Copy is dropped.
SendFrameIgnoresCopyError(file, fileName, partNumber, b, wfail) ==
  LET w0 == NewWriter(b)
      w1 == WriteBytes(CreateFormFile(w0, "file", fileName), Copied(file))
      w2 == IF partNumber # None
            THEN WriteField(w1, "part_number", Itoa(partNumber[1]))
            ELSE w1
  IN  IF wfail = "CreateFormFile"
      THEN [err |-> "create form file", body |-> << >>]
      ELSE IF partNumber # None /\ wfail = "WriteField"
      THEN [err |-> "write field", body |-> << >>]
      ELSE IF wfail = "Close"
      THEN [err |-> "close writer", body |-> << >>]
      ELSE [err |-> "nil", body |-> CloseWriter(w2).buf]

\* Lines 122-143: the body Send frames, or the error it returns instead.
\* wfail is the multipart writer call, if any, that returns an error.
SendFrame(file, fileName, partNumber, b, wfail) ==
  LET w0 == NewWriter(b)
      w1 == WriteBytes(CreateFormFile(w0, "file", fileName), Copied(file))
      w2 == IF partNumber # None
            THEN WriteField(w1, "part_number", Itoa(partNumber[1]))
            ELSE w1
  IN  IF wfail = "CreateFormFile"
      THEN [err |-> "create form file", body |-> << >>]
      ELSE IF file.failAt # -1
      THEN [err |-> "copy", body |-> << >>]
      ELSE IF partNumber # None /\ wfail = "WriteField"
      THEN [err |-> "write field", body |-> << >>]
      ELSE IF wfail = "Close"
      THEN [err |-> "close writer", body |-> << >>]
      ELSE [err |-> "nil", body |-> CloseWriter(w2).buf]

SendRequest(id, body) ==
  [method |-> "POST", path |-> <<"file_uploads", id, "send">>,
   json |-> ZeroRequest, body |-> body, contentType |-> ContentTypeFormData]

\* Mutant of SendResult: every 2xx status counts as success.
SendResultAny2xx(res) ==
  IF res.err THEN [err |-> "request failed", record |-> None]
  ELSE IF res.code < 200 \/ res.code > 299
       THEN [err |-> "unexpected status", record |-> None]
       ELSE [err |-> "nil", record |-> None]

\* Mutant of SendResult: the status code is not looked at.
SendResultIgnoresStatus(res) ==
  IF res.err THEN [err |-> "request failed", record |-> None]
  ELSE [err |-> "nil", record |-> None]

SendResult(res) ==
  IF res.err THEN [err |-> "request failed", record |-> None]
  ELSE IF res.code # StatusOK
       THEN [err |-> "unexpected status", record |-> None]
       ELSE [err |-> "nil", record |-> None]

\* Mutant of SendCall: the client lets one Send at a time reach the transport.
SendCallSerialized(c, id, file, fileName, partNumber, b, wfail) ==
  LET f == SendFrame(file, fileName, partNumber, b, wfail)
      started == [IdleCall EXCEPT
                    !.op = "Send", !.id = id, !.file = file,
                    !.fileName = fileName, !.partNumber = partNumber,
                    !.boundary = b, !.wfail = wfail,
                    !.statusAtCall = status[id]]
  IN  /\ call[c].pc = "idle"
      /\ \A d \in Callers : call[d].pc # "waiting"
      /\ call' = [call EXCEPT ![c] =
           IF f.err # "nil"
           THEN [started EXCEPT !.pc = "done",
                                !.result = [err |-> f.err, record |-> None]]
           ELSE [started EXCEPT !.pc = "waiting", !.exchanges = 1,
                                !.request = SendRequest(id, f.body)]]
      /\ UNCHANGED status

SendCall(c, id, file, fileName, partNumber, b, wfail) ==
  LET f == SendFrame(file, fileName, partNumber, b, wfail)
      started == [IdleCall EXCEPT
                    !.op = "Send", !.id = id, !.file = file,
                    !.fileName = fileName, !.partNumber = partNumber,
                    !.boundary = b, !.wfail = wfail,
                    !.statusAtCall = status[id]]
  IN  /\ call[c].pc = "idle"
      /\ call' = [call EXCEPT ![c] =
           IF f.err # "nil"
           THEN [started EXCEPT !.pc = "done",
                                !.result = [err |-> f.err, record |-> None]]
           ELSE [started EXCEPT !.pc = "waiting", !.exchanges = 1,
                                !.request = SendRequest(id, f.body)]]
      /\ UNCHANGED status

SendReturn(c, res) ==
  /\ call[c].pc = "waiting"
  /\ call[c].op = "Send"
  /\ call' = [call EXCEPT ![c].pc = "done", ![c].response = res,
                          ![c].result = SendResult(res)]
  /\ UNCHANGED status

\* -------------------------------------------------------- SendFileByPath
\* os.FileInfo.Name: the base name of the path.
BaseName(filePath) == filePath[Len(filePath)]

\* ioErr is the local step that fails ("open", "stat" or "none"), file the
\* content the opened file delivers, closeFails whether file.Close errs.
SendFileByPathCall(c, id, filePath, partNumber, ioErr, file, b, wfail, closeFails) ==
  LET fileName == BaseName(filePath)
      f == SendFrame(file, fileName, partNumber, b, wfail)
      started == [IdleCall EXCEPT
                    !.op = "SendFileByPath", !.id = id, !.path = filePath,
                    !.partNumber = partNumber, !.ioErr = ioErr,
                    !.statusAtCall = status[id]]
      opened == [started EXCEPT !.opened = 1]
      sending == [opened EXCEPT !.file = file, !.fileName = fileName,
                                !.boundary = b, !.wfail = wfail]
  IN  /\ call[c].pc = "idle"
      /\ call' = [call EXCEPT ![c] =
           IF ioErr = "open"
           THEN [started EXCEPT !.pc = "done",
                                !.result = [err |-> "open", record |-> None]]
           ELSE IF ioErr = "stat"
           THEN [opened EXCEPT !.pc = "done", !.closed = 1,
                               !.closeFailed = closeFails,
                               !.result = [err |-> "stat", record |-> None]]
           ELSE IF f.err # "nil"
           THEN [sending EXCEPT !.pc = "done", !.closed = 1,
                                !.closeFailed = closeFails,
                                !.result = [err |-> f.err, record |-> None]]
           ELSE [sending EXCEPT !.pc = "waiting", !.exchanges = 1,
                                !.request = SendRequest(id, f.body)]]
      /\ UNCHANGED status

\* Mutant of SendFileByPathReturn: the file is closed after a successful Send
\* only, not by a deferred call.
SendFileByPathReturnLeaks(c, res, closeFails) ==
  /\ call[c].pc = "waiting"
  /\ call[c].op = "SendFileByPath"
  /\ call' = [call EXCEPT ![c].pc = "done", ![c].response = res,
                          ![c].result = SendResult(res),
                          ![c].closed =
                            IF SendResult(res).err = "nil" THEN @ + 1 ELSE @,
                          ![c].closeFailed =
                            SendResult(res).err = "nil" /\ closeFails]
  /\ UNCHANGED status

SendFileByPathReturn(c, res, closeFails) ==
  /\ call[c].pc = "waiting"
  /\ call[c].op = "SendFileByPath"
  /\ call' = [call EXCEPT ![c].pc = "done", ![c].response = res,
                          ![c].result = SendResult(res),
                          ![c].closed = @ + 1,
                          ![c].closeFailed = closeFails]
  /\ UNCHANGED status

\* The caller takes the result; the call site is free for the next call.
Finish(c) ==
  /\ call[c].pc = "done"
  /\ call' = [call EXCEPT ![c] = IdleCall]
  /\ UNCHANGED status

\* --------------------------------------------------------------- service
\* The status changes the remote service makes on its own.
ServiceTransitions ==
  { <<"none", FileUploadStatusPending>>,
    <<FileUploadStatusPending, FileUploadStatusUploaded>>,
    <<FileUploadStatusPending, FileUploadStatusFailed>>,
    <<FileUploadStatusPending, FileUploadStatusExpired>>,
    <<FileUploadStatusUploaded, FileUploadStatusExpired>> }

ServiceTransition(i, s) ==
  /\ <<status[i], s>> \in ServiceTransitions
  /\ status' = [status EXCEPT ![i] = s]
  /\ UNCHANGED call

\* ------------------------------------------------------- specifications
OptPartNumbers == {None} \cup { Some(p) : p \in PartNumbers }

\* The guard on the call site is stated before the inputs are drawn, as the
\* caller is at one place in its program before it picks the arguments.
Idle(c) == call[c].pc = "idle"

Next ==
  \/ \E c \in SeqCallers : Idle(c) /\
       \E req \in FileUploadCreateRequest : CreateCall(c, req)
  \/ \E c \in SeqCallers, res \in Responses : CreateReturn(c, res)
  \/ \E c \in SeqCallers : Idle(c) /\
       \E id \in UploadIds, file \in Readers, fileName \in FileNames,
          pn \in OptPartNumbers, b \in Boundaries, wfail \in WriterFailures :
         SendCall(c, id, file, fileName, pn, b, wfail)
  \/ \E c \in SeqCallers, res \in SendResponses : SendReturn(c, res)
  \/ \E c \in SeqCallers : Idle(c) /\
       \E id \in UploadIds, filePath \in FilePaths, pn \in OptPartNumbers,
          ioErr \in {"none", "open", "stat"}, file \in Readers,
          b \in Boundaries, wfail \in WriterFailures, closeFails \in BOOLEAN :
         SendFileByPathCall(c, id, filePath, pn, ioErr, file, b, wfail, closeFails)
  \/ \E c \in SeqCallers, res \in SendResponses, closeFails \in BOOLEAN :
       SendFileByPathReturn(c, res, closeFails)
  \/ \E c \in SeqCallers : Finish(c)
  \/ \E i \in UploadIds, s \in FileUploadStatuses : ServiceTransition(i, s)

Spec == Init /\ [][Next]_vars

\* Concurrent Send calls on one upload identifier, call site c sending part c.
ConcId == "u1"
ConcFileName == <<"a">>
ConcReaders == { r \in Readers : Len(r.data) = 1 }

ConcSend(c) ==
  \E file \in ConcReaders, b \in Boundaries :
    SendCall(c, ConcId, file, ConcFileName, Some(c), b, "none")

ConcReturn(c) == \E res \in SendResponses : SendReturn(c, res)

NextConc ==
  \/ \E c \in Callers : ConcSend(c)
  \/ \E c \in Callers : ConcReturn(c)
  \/ \E c \in Callers : Finish(c)

SpecConc == Init /\ [][NextConc]_vars

\* ------------------------------------------- reading a multipart body back
\* The first index at or after i whose token is not of kind k.
RECURSIVE RunEnd(_, _, _)
RunEnd(body, i, k) ==
  IF i <= Len(body) /\ body[i].k = k THEN RunEnd(body, i + 1, k) ELSE i

Vals(body, i, j) == [n \in 1..(j - i) |-> body[i + n - 1].v]

RECURSIVE Unescape(_)
Unescape(s) ==
  IF s = << >> THEN << >>
  ELSE IF Head(s) = "\\" /\ Len(s) >= 2
       THEN <<s[2]>> \o Unescape(SubSeq(s, 3, Len(s)))
       ELSE <<Head(s)>> \o Unescape(Tail(s))

\* The parts of a body, in order, and whether it is well framed: every part
\* opened by a delimiter and a header, the whole closed by the final delimiter.
RECURSIVE ReadParts(_, _, _)
ReadParts(body, i, acc) ==
  IF i > Len(body) THEN [ok |-> FALSE, parts |-> acc]
  ELSE IF body[i].k = "final" THEN [ok |-> i = Len(body), parts |-> acc]
  ELSE IF body[i].k # "delim" \/ i + 1 > Len(body) \/ body[i + 1].k # "name"
  THEN [ok |-> FALSE, parts |-> acc]
  ELSE
    LET isFile == i + 2 <= Len(body) /\ body[i + 2].k = "filename"
        fnEnd == IF isFile THEN RunEnd(body, i + 3, "fnchar") ELSE i + 2
        blank == IF isFile THEN fnEnd + 1 ELSE fnEnd
        dataEnd == RunEnd(body, blank + 1, "byte")
        part == [name |-> body[i + 1].v, isFile |-> isFile,
                 filename |-> IF isFile THEN Unescape(Vals(body, i + 3, fnEnd))
                              ELSE << >>,
                 data |-> Vals(body, blank + 1, dataEnd)]
    IN  IF blank > Len(body) \/ body[blank].k # "blank"
           \/ (isFile /\ body[fnEnd].k # "ctype")
        THEN [ok |-> FALSE, parts |-> acc]
        ELSE ReadParts(body, dataEnd, Append(acc, part))

Parts(body) == ReadParts(body, 1, << >>)

\* The boundary strings the framing of a body uses.
BodyBoundaries(body) ==
  { body[i].v : i \in { j \in 1..Len(body) : body[j].k \in {"delim", "final"} } }

DecimalDigit ==
  "0" :> 0 @@ "1" :> 1 @@ "2" :> 2 @@ "3" :> 3 @@ "4" :> 4 @@
  "5" :> 5 @@ "6" :> 6 @@ "7" :> 7 @@ "8" :> 8 @@ "9" :> 9

RECURSIVE DecimalValue(_)
DecimalValue(s) ==
  IF s = << >> THEN 0
  ELSE 10 * DecimalValue(SubSeq(s, 1, Len(s) - 1)) + DecimalDigit[s[Len(s)]]

\* s is the decimal rendering of n: an optional minus sign, digits only, no
\* leading zero.
IsDecimalOf(s, n) ==
  LET d == IF n < 0 THEN Tail(s) ELSE s
  IN  /\ s # << >>
      /\ n < 0 => Head(s) = "-"
      /\ d # << >>
      /\ \A i \in 1..Len(d) : d[i] \in DOMAIN DecimalDigit
      /\ Len(d) > 1 => d[1] # "0"
      /\ DecimalValue(d) = (IF n < 0 THEN -n ELSE n)

SendOps == {"Send", "SendFileByPath"}

Terminal ==
  {FileUploadStatusUploaded, FileUploadStatusExpired, FileUploadStatusFailed}

\* The mode-specific requirements of a CreateRequest are not met.
Violates(req) ==
  \/ /\ req.Mode = FileUploadModeMultiPart
     /\ \/ req.NumberOfParts = None
        \/ req.NumberOfParts[1] \notin MinParts..MaxParts
  \/ req.Mode = FileUploadModeMultiPart /\ req.Filename = << >>
  \/ req.Mode = FileUploadModeExternalURL /\ req.ExternalURL = ""

\* ------------------------------------------------------------------ claims

\* C1: for every Send that reaches the transport, the content-type override
\* carries the boundary the multipart writer framed the body with.
C1_HeaderBoundaryIsBodyBoundary ==
  \A c \in Callers :
    (call[c].op \in SendOps /\ call[c].exchanges > 0) =>
      BodyBoundaries(call[c].request.body) = {call[c].request.contentType.boundary}

\* C2 (as stated): a CreateRequest that violates the mode-specific
\* requirements makes Create return an error locally, the transport never
\* being invoked.
C2_InvalidCreateFailsLocally ==
  \A c \in Callers :
    (call[c].op = "Create" /\ Violates(call[c].req)) =>
      /\ call[c].exchanges = 0
      /\ call[c].pc = "done" => call[c].result.err # "nil"

\* C2 (amended): Create validates nothing locally: every CreateRequest,
\* violating or not, is handed unchanged to the transport exactly once, and
\* Create returns an error only when the transport fails, the status is not
\* 200 or the body cannot be decoded.
C2_CreateAlwaysReachesTransport ==
  \A c \in Callers :
    call[c].op = "Create" =>
      /\ call[c].exchanges = 1
      /\ call[c].request.json = call[c].req
      /\ call[c].request.path = <<"file_uploads">>
      /\ call[c].pc = "done" =>
           (call[c].result.err # "nil" <=>
              \/ call[c].response.err
              \/ call[c].response.code # 200
              \/ ~call[c].response.body.valid)

C2_Witness ==
  \E c \in Callers :
    /\ call[c].op = "Create" /\ call[c].pc = "done"
    /\ call[c].req.Mode = FileUploadModeMultiPart
    /\ call[c].req.NumberOfParts = Some(1001)
    /\ call[c].exchanges = 1
    /\ call[c].result.err = "nil"

\* C3: the body Send hands to the transport is one file part (field "file",
\* declared filename fileName) holding exactly the content bytes, followed by
\* a part_number text field with the decimal rendering of p exactly when p
\* was supplied.
C3_BodyIsFileThenPartNumber ==
  \A c \in Callers :
    (call[c].op \in SendOps /\ call[c].exchanges > 0) =>
      LET r == Parts(call[c].request.body)
          pn == call[c].partNumber
      IN  /\ r.ok
          /\ Len(r.parts) = (IF pn = None THEN 1 ELSE 2)
          /\ r.parts[1] = [name |-> "file", isFile |-> TRUE,
                           filename |-> call[c].fileName,
                           data |-> call[c].file.data]
          /\ pn # None =>
               /\ r.parts[2].name = "part_number"
               /\ ~r.parts[2].isFile
               /\ IsDecimalOf(r.parts[2].data, pn[1])

C3_Witness ==
  \E c \in Callers :
    /\ call[c].op = "Send" /\ call[c].pc = "waiting"
    /\ call[c].partNumber = Some(12)
    /\ call[c].file.data = <<"y", "x">>
    /\ call[c].fileName = <<"\\", "\"">>
    /\ Len(Parts(call[c].request.body).parts) = 2

\* C4: Send succeeds exactly when the response status is 200, Create returns
\* an error and no record whenever it is not 200, and a non-200 response
\* leads to nothing but a returned error: no further exchange.
C4_Non200IsAnError ==
  \A c \in Callers :
    (call[c].exchanges > 0 /\ ~call[c].response.err
       /\ call[c].response.code \in StatusCodes) =>
      /\ call[c].pc = "done"
      /\ call[c].exchanges = 1
      /\ call[c].op \in SendOps =>
           (call[c].result.err = "nil" <=> call[c].response.code = 200)
      /\ (call[c].op = "Create" /\ call[c].response.code # 200) =>
           (call[c].result.err # "nil" /\ call[c].result.record = None)

C4_Witness ==
  \E c \in Callers :
    /\ call[c].op = "Send" /\ call[c].pc = "done"
    /\ call[c].response.code = 500
    /\ call[c].result.err = "unexpected status"

\* C5: when SendFileByPath has returned, on any path, every file handle it
\* opened is closed, exactly once, and a failing close leaves the returned
\* result what the open, stat, framing and exchange made it.
C5_HandleClosedOnEveryPath ==
  \A c \in Callers :
    /\ call[c].closed <= call[c].opened
    /\ call[c].opened <= 1
    /\ (call[c].op = "SendFileByPath" /\ call[c].pc = "done") =>
         /\ call[c].closed = call[c].opened
         /\ call[c].opened = (IF call[c].ioErr = "open" THEN 0 ELSE 1)
         /\ call[c].result.err = "nil" <=>
              /\ call[c].ioErr = "none"
              /\ call[c].exchanges = 1
              /\ ~call[c].response.err
              /\ call[c].response.code = 200

C5_Witness ==
  \E c \in Callers :
    /\ call[c].op = "SendFileByPath" /\ call[c].pc = "done"
    /\ call[c].result.err = "unexpected status"
    /\ call[c].opened = 1 /\ call[c].closed = 1
    /\ call[c].closeFailed

\* C6 (as stated): once an upload identifier's status is Uploaded, Expired
\* or Failed, every later Send against it returns an error, and no client
\* operation moves the status out of that terminal state.
C6_TerminalSendFails ==
  /\ [](\A c \in Callers :
          (call[c].op \in SendOps /\ call[c].pc = "done"
             /\ call[c].statusAtCall \in Terminal) =>
            call[c].result.err # "nil")
  /\ [][\A i \in UploadIds :
          (status[i] \in Terminal /\ call' # call) => status'[i] = status[i]]_vars

\* C6 (amended): the client does not look at an upload's status: a Send
\* against an identifier whose status is Uploaded, Expired or Failed returns
\* an error exactly when the framing fails, the transport fails or the
\* response status is not 200, and no client operation changes the status.
C6_TerminalSendFollowsResponse ==
  /\ [](\A c \in Callers :
          (call[c].op \in SendOps /\ call[c].pc = "done"
             /\ call[c].statusAtCall \in Terminal) =>
            (call[c].result.err = "nil" <=>
               /\ call[c].exchanges = 1
               /\ ~call[c].response.err
               /\ call[c].response.code = 200))
  /\ [][\A i \in UploadIds :
          (status[i] \in Terminal /\ call' # call) => status'[i] = status[i]]_vars

C6_Witness ==
  \E c \in Callers :
    /\ call[c].op = "Send" /\ call[c].pc = "done"
    /\ call[c].statusAtCall = FileUploadStatusUploaded
    /\ status[call[c].id] \in Terminal
    /\ call[c].response.code = 200
    /\ call[c].result.err = "nil"

C8_ConcurrentSendsIndependent ==
  \A c \in Callers :
    /\ call[c].pc = "idle" => ENABLED ConcSend(c)
    /\ call[c].pc = "waiting" => ENABLED ConcReturn(c)
    /\ call[c].exchanges > 0 =>
         LET r == Parts(call[c].request.body)
         IN  /\ r.ok
             /\ Len(r.parts) = 2
             /\ r.parts[1].data = call[c].file.data
             /\ r.parts[2].name = "part_number"
             /\ IsDecimalOf(r.parts[2].data, c)
             /\ call[c].request.path = <<"file_uploads", ConcId, "send">>
    /\ (call[c].pc = "done" /\ call[c].exchanges > 0) =>
         (call[c].result.err = "nil" <=>
            (~call[c].response.err /\ call[c].response.code = 200))

C8_Witness ==
  /\ \A c \in Callers : call[c].pc = "waiting" /\ call[c].exchanges = 1
  /\ call[1].file.data # call[2].file.data

\* C9: when reading the content fails, after any number of bytes, or a later
\* framing step fails, Send returns an error and the transport is never
\* invoked, so every body that is transmitted is complete and finalized.
C9_FramingFailureSendsNothing ==
  \A c \in Callers :
    /\ ( /\ call[c].op \in SendOps
         /\ \/ call[c].file.failAt # -1
            \/ call[c].wfail \in {"CreateFormFile", "Close"}
            \/ call[c].wfail = "WriteField" /\ call[c].partNumber # None ) =>
         /\ call[c].exchanges = 0
         /\ call[c].pc = "done"
         /\ call[c].result.err # "nil"
    /\ (call[c].op \in SendOps /\ call[c].exchanges > 0) =>
         /\ call[c].request.body # << >>
         /\ call[c].request.body[Len(call[c].request.body)].k = "final"
         /\ Cardinality({ i \in 1..Len(call[c].request.body) :
                            call[c].request.body[i].k = "final" }) = 1

C9_Witness ==
  \E c \in Callers :
    /\ call[c].op = "Send" /\ call[c].pc = "done"
    /\ call[c].file.data = <<"x", "y">> /\ call[c].file.failAt = 1
    /\ call[c].exchanges = 0
    /\ call[c].result.err = "copy"

\* C10: one invocation of Create, Send or SendFileByPath makes at most one
\* exchange through the transport; a transport failure or a non-200 response
\* is returned and never followed by a second exchange.
C10_AtMostOneExchange ==
  \A c \in Callers :
    /\ call[c].exchanges <= 1
    /\ call[c].pc = "waiting" => call[c].exchanges = 1
    /\ (call[c].response.err \/ call[c].response.code \in StatusCodes \ {200}) =>
         /\ call[c].pc = "done"
         /\ call[c].exchanges = 1
         /\ call[c].result.err # "nil"

C10_Witness ==
  \E c \in Callers :
    /\ call[c].op = "Create" /\ call[c].pc = "done"
    /\ call[c].response.err
    /\ call[c].exchanges = 1
    /\ call[c].result.err = "transport"

====
